---- MODULE Spec2Model ----
(***************************************************************************)
(* Model of the event-driven ServiceRegistry of                            *)
(* jpal91/microservice-service-registry.                                   *)
(*                                                                         *)
(* Two revisions of the class are in the sources and both are modelled;    *)
(* the variable `variant` says which one was constructed:                  *)
(*   "v2"  src/src/service-registry2.ts: the four default listeners are    *)
(*         attached in the constructor; there is no dispose()/init().      *)
(*   "v3"  src/package.json lines 184-467 (service-registry.ts): the       *)
(*         listeners are attached by init(), guarded by `disposed`.        *)
(* The bodies of the four listeners, of unregister and of the getters are  *)
(* the same text in both revisions.                                        *)
(*                                                                         *)
(* Instance objects live on the heap and are shared by reference between   *)
(* instanceMap and a health-check snapshot: heap[id] is the one object     *)
(* ever created with that id.  instanceMap is the insertion-ordered list   *)
(* of the keys of the JS Map (its values are heap[id]); serviceMap maps a  *)
(* service type to the JS Set of ids stored under it.                      *)
(***************************************************************************)
EXTENDS Naturals, Sequences, FiniteSets, TLC

\* ---------------------------------------------------------------- bounds
\* Number of ids randomUUID() hands out in one run.
MaxIds == 2
\* Largest healthCheckBatchSize option tried.
MaxBatchSize == 2
\* Largest healthCheckMaxRequests option tried.
MaxRequests == 2
\* Number of milliseconds Date.now() advances in one run.
MaxClock == 2

Types == {"users", "products"}
Variants == {"v2", "v3"}

\* The configured SERVICE_REGISTRATION_KEY and a key that differs from it.
RegistrationKey == "abc123"
Keys == {"abc123", "notkey"}

\* `undefined`, as returned by Map.get on a missing key and by a void method.
Undefined == [undefined |-> TRUE]
NoId == 0

\* Ports a service may register with: one that `new URL` accepts and one
\* above 65535, for which it throws.
GoodPort == 3000
BadPort == 99999
Ports == {GoodPort, BadPort}

VARIABLES
  variant,                \* which revision of the class was constructed
  healthChecks,           \* opts.healthChecks
  healthCheckBatchSize,   \* opts.healthCheckBatchSize
  healthCheckMaxRequests, \* opts.healthCheckMaxRequests
  disposed,               \* private disposed
  listening,              \* the four default listeners are attached
  heap,                   \* heap[id]: the Instance object created with that id
  tokens,                 \* tokens[id]: the token issued with that id
  instanceMap,            \* keys of this.instanceMap, in insertion order
  serviceMap,             \* this.serviceMap: type -> set of ids
  cycle,                  \* "idle" | "running": processHealthChecks in progress
  snapshot,               \* `instances` of the running processHealthChecks
  bi,                     \* loop variable i of processHealthChecks
  cj,                     \* loop variable j of processHealthChecks
  inflight,               \* ids whose checkInstanceHealth awaits its fetch
  timer,                  \* healthCheckTimeout is pending
  probed,                 \* ids checkInstanceHealth was called for, this cycle
  lifecycle,              \* which of dispose() and init() were called so far
  subscriber,             \* how an application handler is attached, if at all
  throws,                 \* that handler throws whenever it runs
  observed,               \* what that handler saw when it ran in the last step
  lastOp,                 \* the last call or callback, its result and events
  clock,                  \* Date.now()
  registry,               \* legacy class: this.registry, entries in key order
  uuids,                  \* legacy class: number of ids randomUUID() handed out
  served                  \* legacy class: ids the consecutive calls of
                          \* getNextServiceByType for one type returned

maps == <<heap, instanceMap, serviceMap>>
config == <<variant, healthChecks, healthCheckBatchSize, healthCheckMaxRequests,
            throws>>
loop == <<cycle, snapshot, bi, cj, inflight, probed>>
supervisor == <<loop, timer>>
legacy == <<registry, uuids, served>>
vars == <<config, disposed, listening, maps, tokens, supervisor, lifecycle,
          subscriber, observed, lastOp, clock, legacy>>

\* ------------------------------------------------------- JS Map and Set
Range(s) == {s[k] : k \in 1..Len(s)}

\* Map.has(key)
MapHas(m, id) == id \in Range(m)

\* Map.set(key, value) on the key list: an existing key keeps its place.
MapSet(m, id) == IF MapHas(m, id) THEN m ELSE Append(m, id)

\* Map.delete(key)
MapDelete(m, id) == SelectSeq(m, LAMBDA x : x # id)

\* The three structures the listeners read and write, as one value.
State(h, im, sm) == [heap |-> h, instanceMap |-> im, serviceMap |-> sm]

Current == State(heap, instanceMap, serviceMap)

EmptyServiceMap == [t \in {} |-> {}]

\* serviceMap.set(type, set)
ServiceMapSet(sm, type, set) ==
  [t \in (DOMAIN sm) \cup {type} |-> IF t = type THEN set ELSE sm[t]]

\* ------------------------------------------------------ default listeners
\* this.on("instanceRegistered", ...)
OnInstanceRegistered(s, id) ==
  LET type == s.heap[id].serviceType
      sm1 == IF type \in DOMAIN s.serviceMap
               THEN s.serviceMap
               ELSE ServiceMapSet(s.serviceMap, type, {})
  IN State(s.heap,
           MapSet(s.instanceMap, id),
           ServiceMapSet(sm1, type, sm1[type] \cup {id}))

\* Mutant of the instanceRemoved listener: the id stays in the type's Set.
MutRemovedKeepsServiceId(s, id) ==
  State(s.heap, MapDelete(s.instanceMap, id), s.serviceMap)

\* Mutant of the instanceRemoved listener: the record stays in instanceMap.
MutRemovedKeepsRecord(s, id) ==
  LET type == s.heap[id].serviceType
  IN State(s.heap,
           s.instanceMap,
           IF type \in DOMAIN s.serviceMap
             THEN ServiceMapSet(s.serviceMap, type, s.serviceMap[type] \ {id})
             ELSE s.serviceMap)

\* this.on("instanceRemoved", ...)
OnInstanceRemoved(s, id) ==
  LET type == s.heap[id].serviceType
  IN State(s.heap,
           MapDelete(s.instanceMap, id),
           IF type \in DOMAIN s.serviceMap
             THEN ServiceMapSet(s.serviceMap, type, s.serviceMap[type] \ {id})
             ELSE s.serviceMap)

\* Mutant of the healthCheckFailed listener: the id stays in the type's Set.
MutFailedKeepsServiceId(s, id) ==
  IF ~s.heap[id].healthy
    THEN s
    ELSE State([s.heap EXCEPT ![id].healthy = FALSE],
               MapSet(s.instanceMap, id),
               s.serviceMap)

\* Mutant of the healthCheckFailed listener: the failed instance is purged.
MutFailedRemovesRecord(s, id) ==
  LET type == s.heap[id].serviceType
  IN IF ~s.heap[id].healthy
       THEN s
       ELSE State([s.heap EXCEPT ![id].healthy = FALSE],
                  MapDelete(s.instanceMap, id),
                  IF type \in DOMAIN s.serviceMap
                    THEN ServiceMapSet(s.serviceMap, type,
                                       s.serviceMap[type] \ {id})
                    ELSE s.serviceMap)

\* Mutant of the healthCheckFailed listener: the early return is missing.
MutFailedNoGuard(s, id) ==
  LET type == s.heap[id].serviceType
  IN State([s.heap EXCEPT ![id].healthy = FALSE],
           MapSet(s.instanceMap, id),
           IF type \in DOMAIN s.serviceMap
             THEN ServiceMapSet(s.serviceMap, type, s.serviceMap[type] \ {id})
             ELSE s.serviceMap)

\* this.on("healthCheckFailed", ...)
OnHealthCheckFailed(s, id) ==
  LET type == s.heap[id].serviceType
  IN IF ~s.heap[id].healthy
       THEN s
       ELSE State([s.heap EXCEPT ![id].healthy = FALSE],
                  MapSet(s.instanceMap, id),
                  IF type \in DOMAIN s.serviceMap
                    THEN ServiceMapSet(s.serviceMap, type,
                                       s.serviceMap[type] \ {id})
                    ELSE s.serviceMap)

\* Mutant of the healthCheckPassed listener: the id is not put back into
\* the type's Set.
MutPassedForgetsServiceId(s, id) ==
  IF s.heap[id].healthy
    THEN s
    ELSE State([s.heap EXCEPT ![id].healthy = TRUE],
               MapSet(s.instanceMap, id),
               s.serviceMap)

\* Mutant of the healthCheckPassed listener: the early return is inverted.
MutPassedGuardInverted(s, id) ==
  LET type == s.heap[id].serviceType
  IN IF ~s.heap[id].healthy
       THEN s
       ELSE State([s.heap EXCEPT ![id].healthy = TRUE],
                  MapSet(s.instanceMap, id),
                  IF type \in DOMAIN s.serviceMap
                    THEN ServiceMapSet(s.serviceMap, type,
                                       s.serviceMap[type] \cup {id})
                    ELSE s.serviceMap)

\* this.on("healthCheckPassed", ...)
OnHealthCheckPassed(s, id) ==
  LET type == s.heap[id].serviceType
  IN IF s.heap[id].healthy
       THEN s
       ELSE State([s.heap EXCEPT ![id].healthy = TRUE],
                  MapSet(s.instanceMap, id),
                  IF type \in DOMAIN s.serviceMap
                    THEN ServiceMapSet(s.serviceMap, type,
                                       s.serviceMap[type] \cup {id})
                    ELSE s.serviceMap)

\* Mutant of emit: the default listeners stay attached whatever init() and
\* dispose() did.
MutEmitListenersKept(l, s, event, id) ==
  CASE event = "instanceRegistered" -> OnInstanceRegistered(s, id)
    [] event = "instanceRemoved"    -> OnInstanceRemoved(s, id)
    [] event = "healthCheckFailed"  -> OnHealthCheckFailed(s, id)
    [] event = "healthCheckPassed"  -> OnHealthCheckPassed(s, id)

\* Mutant of emit: removeAllListeners leaves the two health listeners
\* attached.
MutEmitHealthListenersKept(l, s, event, id) ==
  CASE event = "healthCheckFailed"  -> OnHealthCheckFailed(s, id)
    [] event = "healthCheckPassed"  -> OnHealthCheckPassed(s, id)
    [] event = "instanceRegistered" ->
         IF l THEN OnInstanceRegistered(s, id) ELSE s
    [] event = "instanceRemoved"    ->
         IF l THEN OnInstanceRemoved(s, id) ELSE s

\* this.emit(event, instance): the default listener runs synchronously when
\* it is attached (argument l); with no listener the event is dropped.
Emit(l, s, event, id) ==
  IF ~l THEN s
  ELSE CASE event = "instanceRegistered" -> OnInstanceRegistered(s, id)
         [] event = "instanceRemoved"    -> OnInstanceRemoved(s, id)
         [] event = "healthCheckFailed"  -> OnHealthCheckFailed(s, id)
         [] event = "healthCheckPassed"  -> OnHealthCheckPassed(s, id)

\* ----------------------------------------------------------------- lookups
\* getInstanceById(id): this.instanceMap.get(id)
getInstanceById(s, id) ==
  IF MapHas(s.instanceMap, id) THEN s.heap[id] ELSE Undefined

\* getInstancesByType(serviceType): one entry per id of the Set, each the
\* result of instanceMap.get(id) (possibly undefined).
getInstancesByType(s, type) ==
  LET services == IF type \in DOMAIN s.serviceMap
                    THEN s.serviceMap[type] ELSE {}
  IN [id \in services |-> getInstanceById(s, id)]

\* ------------------------------------------------------------ subscribers
\* An application handler for instanceRegistered and instanceRemoved,
\* attached after construction with on() or with prependListener().
Subscriptions == {"on", "prepend"}

\* no handler ran
NotRun == [ran |-> FALSE, present |-> FALSE, listed |-> FALSE]

\* What the handler sees while emit(event, instance) delivers the event:
\* listeners run in list order, so a handler attached with on() runs after
\* the default listener (state `after`), a prepended one before it (state
\* `before`).  present: getInstanceById(instance.id) returns the instance;
\* listed: the id is in the Set of its service type.
Handler(how, before, after, id) ==
  IF how \notin Subscriptions
    THEN NotRun
    ELSE LET s    == IF how = "prepend" THEN before ELSE after
             type == s.heap[id].serviceType
         IN [ran     |-> TRUE,
             present |-> getInstanceById(s, id) # Undefined,
             listed  |-> type \in DOMAIN s.serviceMap /\ id \in s.serviceMap[type]]

\* The handler throws out of emit(event, instance): emit rethrows to its
\* caller and the listeners after the handler do not run.
Thrown(how, th, ev) == how \in Subscriptions /\ th /\ ev # <<>>

\* The structures once emit has returned or thrown: a prepended handler
\* that throws keeps the default listener from running.
Delivered(how, th, before, after, ev) ==
  IF Thrown(how, th, ev) /\ how = "prepend" THEN before ELSE after

\* ----------------------------------------------------------------- probes
\* What the fetch of a probe can come to: a response with a status and a
\* body that parses as JSON or not, a transport error, or the abort after
\* healthCheckTTL.  v2 arms the abort with the unbound controller.abort,
\* which never aborts the fetch.
Statuses == {200, 299, 300, 500}

Responses(v) ==
  {[transport |-> "response", status |-> st, json |-> j] :
     st \in Statuses, j \in BOOLEAN}
  \cup {[transport |-> "error", status |-> 0, json |-> FALSE]}
  \cup IF v = "v3"
         THEN {[transport |-> "abort", status |-> 0, json |-> FALSE]}
         ELSE {}

\* Mutant of the probe: the status of the response is not looked at.
MutStatusIgnored(r) ==
  IF r.transport = "response" /\ r.json
    THEN "healthCheckPassed" ELSE "healthCheckFailed"

\* The event checkInstanceHealth emits first: fetch rejects on a transport
\* error or abort, `!res.ok` throws for a status outside 200..299 and
\* res.json() throws for a body that does not parse.
checkResponse(r) ==
  IF r.transport = "response" /\ r.status >= 200 /\ r.status <= 299 /\ r.json
    THEN "healthCheckPassed" ELSE "healthCheckFailed"

\* The outcomes of a fetch after which a probe emits a given event first.
Settling ==
  [v \in Variants |->
     [ev \in {"healthCheckPassed", "healthCheckFailed"} |->
        {r \in Responses(v) : checkResponse(r) = ev}]]

\* checkInstanceHealth(instance) from the settling of its fetch on.  The
\* emit of healthCheckPassed is inside the try block: when a handler throws
\* out of it the catch block emits healthCheckFailed as well.  A throw out
\* of the emit of healthCheckFailed rejects the promise of the probe.
checkInstanceHealth(l, how, th, s, id, first) ==
  LET failed(b) == Delivered(how, th, b, Emit(l, b, "healthCheckFailed", id),
                             <<"healthCheckFailed">>)
      passed == Delivered(how, th, s, Emit(l, s, "healthCheckPassed", id),
                          <<"healthCheckPassed">>)
      thrown == Thrown(how, th, <<first>>)
  IN IF first = "healthCheckFailed"
       THEN [st |-> failed(s), ev |-> <<"healthCheckFailed">>, rejected |-> thrown]
       ELSE IF ~thrown
              THEN [st |-> passed, ev |-> <<"healthCheckPassed">>,
                    rejected |-> FALSE]
              ELSE [st |-> failed(passed),
                    ev |-> <<"healthCheckPassed", "healthCheckFailed">>,
                    rejected |-> TRUE]

\* new URL("/health", `https://${instance.host}:${instance.port}`) returns;
\* it throws a TypeError for a port above 65535.
URLParses(port) == port \in 0..65535

\* checkInstanceHealth(instance) up to its first suspension.  v3 wraps the
\* construction of the URL in a try block whose catch emits
\* healthCheckFailed and returns; in v2 the construction is outside every
\* try block, so the promise of the probe rejects and nothing is emitted.
\* With a URL the fetch is issued and the probe suspends (fetching).
checkInstanceHealthUrl(l, s, id) ==
  IF URLParses(s.heap[id].port)
    THEN [st |-> s, ev |-> <<>>, fetching |-> TRUE, rejected |-> FALSE]
    ELSE IF variant = "v3"
           THEN LET out == checkInstanceHealth(l, subscriber, throws, s, id,
                                               "healthCheckFailed")
                IN [st |-> out.st, ev |-> out.ev, fetching |-> FALSE,
                    rejected |-> out.rejected]
           ELSE [st |-> s, ev |-> <<>>, fetching |-> FALSE, rejected |-> TRUE]

\* chunk.map((inst) => this.checkInstanceHealth(inst)): the probes of a
\* chunk are started one after another, each running to its first
\* suspension.  after[k]: the outcome once the first k probes were started;
\* fetching: the ids whose fetch is pending; rejected: a promise of the chunk
\* is rejected.
issueChunk(l, chunk, s) ==
  LET after[k \in 0..Len(chunk)] ==
        IF k = 0
          THEN [st |-> s, ev |-> <<>>, fetching |-> {}, rejected |-> FALSE]
          ELSE \* one evaluation of each operand
               CHOOSE acc \in UNION
                 { { [st |-> p.st,
                      ev |-> prev.ev \o p.ev,
                      fetching |-> IF p.fetching
                                     THEN prev.fetching \cup {chunk[k]}
                                     ELSE prev.fetching,
                      rejected |-> prev.rejected \/ p.rejected] :
                     p \in {checkInstanceHealthUrl(l, prev.st, chunk[k])} } :
                   prev \in {after[k - 1]} } :
                 TRUE
  IN IF \A k \in 1..Len(chunk) : URLParses(s.heap[chunk[k]].port)
       THEN \* every probe suspends in its fetch
            [st |-> s, ev |-> <<>>, fetching |-> Range(chunk),
             rejected |-> FALSE]
       ELSE after[Len(chunk)]

\* ------------------------------------------------------------ credentials
\* Mutant of the key check: every presented key is accepted.
MutAnyKeyAccepted(presented) == TRUE

\* verifies the presented registration key against the configured one
verifyRegistrationKey(presented) == presented = RegistrationKey

\* token minted for a new id: a fresh value bound 1-to-1 to the id
mintToken(id) == <<"token", id>>

\* Mutant of validateInstanceAuth: the token is compared but the record is
\* not looked up.
MutAuthTokenOnly(s, tk, id, token) ==
  /\ id \in DOMAIN tk
  /\ tk[id] = token

\* validateInstanceAuth(id, token)
validateInstanceAuth(s, tk, id, token) ==
  /\ MapHas(s.instanceMap, id)
  /\ id \in DOMAIN tk
  /\ tk[id] = token

\* -------------------------------------------------------------------- API
\* Service names a client may ask for: the registered types and one more.
ServiceNames == Types \cup {"nothing"}

\* GET /services/:serviceName behind authenticateService: 401 without valid
\* credentials; otherwise the result of getInstancesByType with 200.  The
\* catch branch (400) is taken only when getInstancesByType throws, which
\* it never does: for a name without a Set it returns the empty list.
getServices(s, tk, id, token, serviceName) ==
  IF ~validateInstanceAuth(s, tk, id, token)
    THEN [status |-> 401, data |-> <<>>, st |-> s]
    ELSE [status |-> 200, data |-> getInstancesByType(s, serviceName), st |-> s]

\* ------------------------------------------------------------- operations
\* What a call leaves behind: the new structures, the events it emitted,
\* its return value and the error it threw.
Outcome(s, ev, ret, err) == [st |-> s, ev |-> ev, ret |-> ret, err |-> err]

\* register(instance) of the class: v3 checks `disposed` and returns the
\* id; v2 does neither (it returns nothing).
register(v, d, l, s, type, port, now) ==
  IF v = "v3" /\ d
    THEN Outcome(s, <<>>, NoId, "Disposed")
    ELSE LET id == Len(s.heap) + 1
             newInstance == [id |-> id, serviceType |-> type, port |-> port,
                             healthy |-> TRUE, created |-> now,
                             lastUpdated |-> now]
             s1 == State(Append(s.heap, newInstance), s.instanceMap, s.serviceMap)
         IN Outcome(Emit(l, s1, "instanceRegistered", id),
                    <<"instanceRegistered">>,
                    IF v = "v3" THEN id ELSE NoId,
                    "none")

\* Mutant of unregister: the record is looked up but no event is emitted.
MutUnregisterNoEmit(l, s, id) ==
  Outcome(s, <<>>, NoId, "none")

\* unregister(id)
unregister(l, s, id) ==
  IF getInstanceById(s, id) # Undefined
    THEN Outcome(Emit(l, s, "instanceRemoved", id), <<"instanceRemoved">>, NoId, "none")
    ELSE Outcome(s, <<>>, NoId, "none")

\* Health of an id as the registry sees it before a call.
Was(s, id) ==
  IF ~MapHas(s.instanceMap, id) THEN "absent"
  ELSE IF s.heap[id].healthy THEN "healthy" ELSE "unhealthy"

\* Mutant of the DELETE route: the middleware lets every request through.
MutDeleteNoAuth(l, s, tk, sid, token, id) ==
  [status |-> 200, st |-> unregister(l, s, id).st, ev |-> unregister(l, s, id).ev]

\* DELETE /service/:id behind authenticateService.  The middleware answers
\* 401 when the x-service-id or the x-service-token header is missing (sid
\* NoId, token of NoId) or when validateInstanceAuth refuses the pair;
\* otherwise the handler calls registry.unregister(id) and answers 200.
deleteService(l, s, tk, sid, token, id) ==
  IF sid = NoId \/ token = <<"token", NoId>>
    THEN [status |-> 401, st |-> s, ev |-> <<>>]
    ELSE IF ~validateInstanceAuth(s, tk, sid, token)
           THEN [status |-> 401, st |-> s, ev |-> <<>>]
           ELSE [status |-> 200, st |-> unregister(l, s, id).st,
                 ev |-> unregister(l, s, id).ev]

\* -------------------------------------------------------- health supervisor
Min(a, b) == IF a < b THEN a ELSE b

\* Mutant of the batch slice: every batch is cut from the start of the list.
MutBatchFromStart(instances, i) ==
  SubSeq(instances, 1, Min(healthCheckBatchSize, Len(instances)))

\* instances.slice(i, i + healthCheckBatchSize)
Batch(instances, i) ==
  SubSeq(instances, i + 1, Min(i + healthCheckBatchSize, Len(instances)))

\* Mutant of the chunk slice: the whole batch is probed at once.
MutChunkWholeBatch(instances, i, j) == Batch(instances, i)

\* batch.slice(j, j + healthCheckMaxRequests)
Chunk(instances, i, j) ==
  LET batch == Batch(instances, i)
  IN SubSeq(batch, j + 1, Min(j + healthCheckMaxRequests, Len(batch)))

\* The two nested for loops of processHealthChecks, resumed after the
\* await of a chunk: the next (i, j), or done when both loops are over.
AfterChunk(instances, i, j) ==
  IF j + healthCheckMaxRequests < Len(Batch(instances, i))
    THEN [done |-> FALSE, i |-> i, j |-> j + healthCheckMaxRequests]
    ELSE IF i + healthCheckBatchSize < Len(instances)
           THEN [done |-> FALSE, i |-> i + healthCheckBatchSize, j |-> 0]
           ELSE [done |-> TRUE, i |-> 0, j |-> 0]

\* Nothing emitted and no probe issued so far.
NoRun == [ev |-> <<>>, issued |-> <<>>]

\* One chunk of processHealthChecks, cut from `instances` at (i, j), issued
\* and awaited with Promise.all: a rejected promise of the chunk rejects it
\* ("rejected": the error leaves the loops), a pending fetch suspends it
\* ("awaiting"); a chunk none of whose probes suspended is followed by the
\* next one at once ("next", at the (i, j) given), unless both loops are
\* over ("done").  `before`: the events emitted and the probes issued
\* since the step began.
processChunk(l, s, instances, i, j, before) ==
  CHOOSE r \in
    { [phase |-> IF c.rejected THEN "rejected"
                 ELSE IF c.fetching # {} THEN "awaiting"
                 ELSE IF nxt.done THEN "done" ELSE "next",
       st |-> c.st,
       ev |-> before.ev \o c.ev,
       issued |-> before.issued \o chunk,
       i |-> IF c.rejected \/ c.fetching # {} THEN i ELSE nxt.i,
       j |-> IF c.rejected \/ c.fetching # {} THEN j ELSE nxt.j,
       fetching |-> c.fetching] :
      chunk \in {Chunk(instances, i, j)},
      c \in {issueChunk(l, Chunk(instances, i, j), s)},
      nxt \in {AfterChunk(instances, i, j)} } :
    TRUE

\* The two loops of processHealthChecks over `instances` from (i, j) on, up
\* to the next suspension or to their end: go[k] is the outcome after at
\* most k chunks.  There are at most Len(instances) chunks.
processHealthChecks(l, s, instances, i, j, before) ==
  LET go[k \in 1..Len(instances)] ==
        IF k = 1
          THEN processChunk(l, s, instances, i, j, before)
          ELSE CHOOSE r \in
                 { IF prev.phase # "next"
                     THEN prev
                     ELSE processChunk(l, prev.st, instances, prev.i, prev.j,
                                       prev) :
                   prev \in {go[k - 1]} } :
                 TRUE
  IN IF instances = <<>>
       THEN [phase |-> "done", st |-> s, ev |-> before.ev,
             issued |-> before.issued, i |-> 0, j |-> 0, fetching |-> {}]
       ELSE CHOOSE r \in
              { IF first.phase # "next" THEN first ELSE go[Len(instances)] :
                first \in {go[1]} } :
              TRUE

\* What the loops do once the probe of `id` has settled and left the
\* structures s: they stay suspended ("waiting") while another probe of
\* the chunk is pending, or when the cycle of the probe is over already.
AfterProbe(s, id) ==
  IF inflight # {id} \/ cycle = "idle"
    THEN [phase |-> "waiting", st |-> s, ev |-> <<>>, issued |-> <<>>,
          i |-> bi, j |-> cj, fetching |-> inflight \ {id}]
    ELSE LET nxt == AfterChunk(snapshot, bi, cj)
         IN IF nxt.done
              THEN [phase |-> "done", st |-> s, ev |-> <<>>, issued |-> <<>>,
                    i |-> 0, j |-> 0, fetching |-> {}]
              ELSE processHealthChecks(listening, s, snapshot, nxt.i, nxt.j,
                                       NoRun)

\* Mutant of the loops: the chunks are not awaited, every probe of the
\* snapshot is issued before the first suspension.
MutStartCycleNoAwait(run, pending) ==
  IF Len(instanceMap) = 0
    THEN /\ cycle' = "idle"
         /\ snapshot' = <<>>
         /\ inflight' = {}
         /\ probed' = <<>>
         /\ timer' = TRUE
         /\ UNCHANGED <<bi, cj>>
    ELSE /\ cycle' = "running"
         /\ snapshot' = instanceMap
         /\ bi' = 0
         /\ cj' = 0
         /\ inflight' = Range(instanceMap)
         /\ probed' = instanceMap
         /\ timer' = pending

\* runHealthChecks() up to its first suspension, `run` being what
\* processHealthChecks did over the snapshot it took: while a chunk is
\* awaited the cycle is running; when the loops ended or threw, the finally
\* block arms the timer.  `pending` says whether another healthCheckTimeout
\* stays pending.
StartCycle(run, pending) ==
  IF run.phase = "awaiting"
    THEN /\ cycle' = "running"
         /\ snapshot' = instanceMap
         /\ bi' = run.i
         /\ cj' = run.j
         /\ inflight' = run.fetching
         /\ probed' = run.issued
         /\ timer' = pending
    ELSE /\ cycle' = "idle"
         /\ snapshot' = <<>>
         /\ bi' = 0
         /\ cj' = 0
         /\ inflight' = run.fetching
         /\ probed' = <<>>
         /\ timer' = TRUE

\* Mutant of the loops: each chunk is cut from the live instanceMap instead
\* of the snapshot taken when the cycle started.
MutResumeCycleLive(run, id) ==
  LET left == inflight \ {id}
      nxt  == AfterChunk(instanceMap, bi, cj)
  IN IF left # {}
       THEN /\ inflight' = left
            /\ UNCHANGED <<cycle, snapshot, bi, cj, probed, timer>>
       ELSE IF nxt.done
              THEN /\ cycle' = "idle"
                   /\ snapshot' = <<>>
                   /\ bi' = 0
                   /\ cj' = 0
                   /\ inflight' = {}
                   /\ probed' = <<>>
                   /\ timer' = TRUE
              ELSE /\ bi' = nxt.i
                   /\ cj' = nxt.j
                   /\ inflight' = Range(Chunk(instanceMap, nxt.i, nxt.j))
                   /\ probed' = probed \o Chunk(instanceMap, nxt.i, nxt.j)
                   /\ UNCHANGED <<cycle, snapshot, timer>>

\* The rest of the cycle once the probe of `id` has settled, `run` being
\* what the loops did then: when the probe was the last of its chunk,
\* Promise.all resolves and the loops go on with the next chunk, or the
\* cycle ends (the loops are over, or a probe of the next chunk rejected)
\* and the finally block arms the timer.
ResumeCycle(run, id) ==
  CASE run.phase = "waiting" ->
         /\ inflight' = run.fetching
         /\ UNCHANGED <<cycle, snapshot, bi, cj, probed, timer>>
    [] run.phase = "awaiting" ->
         /\ bi' = run.i
         /\ cj' = run.j
         /\ inflight' = run.fetching
         /\ probed' = probed \o run.issued
         /\ UNCHANGED <<cycle, snapshot, timer>>
    [] OTHER ->
         /\ cycle' = "idle"
         /\ snapshot' = <<>>
         /\ bi' = 0
         /\ cj' = 0
         /\ inflight' = run.fetching
         /\ probed' = <<>>
         /\ timer' = TRUE

\* The promise of the probe of `id` rejects: Promise.all rejects at once,
\* processHealthChecks throws out of its loops, runHealthChecks logs the
\* error and its finally block arms the timer.  The other probes of the
\* chunk stay in flight; later chunks and batches are never probed.  A
\* probe left over from a cycle that was aborted before has nobody waiting.
AbortCycle(id) ==
  IF cycle = "idle"
    THEN /\ inflight' = inflight \ {id}
         /\ UNCHANGED <<cycle, snapshot, bi, cj, probed, timer>>
    ELSE /\ cycle' = "idle"
         /\ snapshot' = <<>>
         /\ bi' = 0
         /\ cj' = 0
         /\ inflight' = inflight \ {id}
         /\ probed' = <<>>
         /\ timer' = TRUE

\* --------------------------------------------------------------- history
\* lastOp: the call or callback that made the last step.  issued: the ids
\* checkInstanceHealth was called for during the step.
Op(op, id, type, key, was, out, token) ==
  [op |-> op, id |-> id, type |-> type, key |-> key, was |-> was,
   ret |-> out.ret, token |-> token, err |-> out.err, ev |-> out.ev,
   issued |-> <<>>]

\* lastOp after a step in which the loops of processHealthChecks ran.
Ran(op, run) ==
  [Op(op, NoId, "", "", "absent",
      Outcome(Current, run.ev, NoId,
              IF run.phase = "rejected" THEN "Rejected" ELSE "none"),
      <<"token", NoId>>)
   EXCEPT !.issued = run.issued]

NoOut == Outcome(Current, <<>>, NoId, "none")
NoToken == <<"token", NoId>>

SetMaps(s) ==
  /\ heap' = s.heap
  /\ instanceMap' = s.instanceMap
  /\ serviceMap' = s.serviceMap

\* ------------------------------------------------------------------ Init
\* The state after `new ServiceRegistry(opts)`.  v2 attaches the listeners
\* and, with opts.healthChecks, runs a first (empty) cycle that arms the
\* timer.  v3 calls init(), which returns at once because `disposed` is
\* false: no listener is attached and no cycle is started.  A chunk is cut
\* from a batch, so a healthCheckMaxRequests above healthCheckBatchSize
\* makes the loops run exactly as one equal to it: those are left out.
Constructed ==
  /\ variant \in Variants
  /\ healthChecks \in BOOLEAN
  /\ healthCheckBatchSize \in 1..MaxBatchSize
  /\ healthCheckMaxRequests \in 1..Min(MaxRequests, healthCheckBatchSize)
  /\ disposed = FALSE
  /\ listening = (variant = "v2")
  /\ heap = <<>>
  /\ tokens = <<>>
  /\ instanceMap = <<>>
  /\ serviceMap = EmptyServiceMap
  /\ cycle = "idle"
  /\ snapshot = <<>>
  /\ bi = 0
  /\ cj = 0
  /\ inflight = {}
  /\ probed = <<>>
  /\ timer = (variant = "v2" /\ healthChecks)
  /\ lifecycle = "constructed"
  /\ observed = NotRun
  /\ lastOp = Op("new", NoId, "", "", "absent", NoOut, NoToken)
  /\ clock = 0
  /\ registry = <<>>
  /\ uuids = 0
  /\ served = <<>>

\* A registry nobody subscribed to.
Init ==
  /\ Constructed
  /\ subscriber = "none"
  /\ throws = FALSE

\* A registry with an application handler attached right after construction.
InitSubscribed ==
  /\ Constructed
  /\ subscriber \in Subscriptions
  /\ throws = FALSE

\* A registry whose application handler throws.
InitThrowing ==
  /\ Constructed
  /\ subscriber \in Subscriptions
  /\ throws = TRUE

\* --------------------------------------------------------------- actions
\* register(req, key): the key is verified first; on a match the class's
\* register runs and a token is minted for the new id.
Register(type, key, port) ==
  /\ Len(heap) < MaxIds
  /\ IF ~verifyRegistrationKey(key)
       THEN /\ lastOp' = Op("register", NoId, type, key, "absent",
                            Outcome(Current, <<>>, NoId, "Authentication"), NoToken)
            /\ observed' = NotRun
            /\ UNCHANGED <<maps, tokens>>
       ELSE \E out \in {register(variant, disposed, listening, Current, type,
                                   port, clock)} :
            LET id  == Len(heap) + 1
                before == State(out.st.heap, instanceMap, serviceMap)
                thrown == Thrown(subscriber, throws, out.ev)
            IN /\ SetMaps(Delivered(subscriber, throws, before, out.st, out.ev))
               /\ tokens' = IF out.err = "none"
                              THEN Append(tokens, mintToken(id)) ELSE tokens
               /\ lastOp' = Op("register", IF out.err = "none" THEN id ELSE NoId,
                               type, key, "absent",
                               IF thrown
                                 THEN Outcome(out.st, out.ev, NoId, "Handler")
                                 ELSE out,
                               IF out.err = "none" /\ ~thrown
                                 THEN mintToken(id) ELSE NoToken)
               /\ observed' =
                    IF out.ev = <<>> THEN NotRun
                    ELSE Handler(subscriber, before, out.st, id)
  /\ UNCHANGED <<legacy, config, clock, disposed, listening, supervisor, lifecycle, subscriber>>

\* unregister(id), for any id a caller may present
Unregister(id) ==
  \E out \in {unregister(listening, Current, id)} :
     /\ SetMaps(Delivered(subscriber, throws, Current, out.st, out.ev))
     /\ lastOp' = Op("unregister", id, "", "", Was(Current, id),
                     IF Thrown(subscriber, throws, out.ev)
                       THEN Outcome(out.st, out.ev, NoId, "Handler")
                       ELSE out,
                     NoToken)
     /\ observed' = IF out.ev = <<>> THEN NotRun
                    ELSE Handler(subscriber, Current, out.st, id)
     /\ UNCHANGED <<legacy, config, clock, disposed, listening, tokens, supervisor,
                    lifecycle, subscriber>>

\* An HTTP DELETE /service/:id with the headers x-service-id: sid and
\* x-service-token: token.
DeleteService(sid, token, id) ==
  \E res \in {deleteService(listening, Current, tokens, sid, token, id)} :
     /\ SetMaps(res.st)
     /\ lastOp' =
          [Op("delete", id, "", "", Was(Current, id),
              Outcome(res.st, res.ev, res.status,
                      IF res.status = 401 THEN "Authentication" ELSE "none"),
              token)
           EXCEPT !.key = sid]
     /\ observed' = NotRun
     /\ UNCHANGED <<legacy, config, clock, disposed, listening, tokens, supervisor,
                    lifecycle, subscriber>>

\* A call of runHealthChecks() from outside (as the tests make it), made
\* while no cycle is running and no timer is pending.
RunHealthChecks ==
  /\ cycle = "idle"
  /\ inflight = {}
  /\ ~timer
  /\ \E run \in {processHealthChecks(listening, Current, instanceMap, 0, 0,
                                       NoRun)} :
        /\ SetMaps(run.st)
        /\ StartCycle(run, FALSE)
        /\ lastOp' = Ran("runHealthChecks", run)
  /\ observed' = NotRun
  /\ UNCHANGED <<legacy, config, clock, disposed, listening, tokens, lifecycle, subscriber>>

\* A call of runHealthChecks() from outside while the registry's own next
\* cycle is scheduled: nothing in runHealthChecks looks at
\* healthCheckTimeout, so the cycle starts and the timer stays pending.
RunHealthChecksScheduled ==
  /\ cycle = "idle"
  /\ inflight = {}
  /\ timer
  /\ \E run \in {processHealthChecks(listening, Current, instanceMap, 0, 0,
                                       NoRun)} :
        /\ SetMaps(run.st)
        /\ StartCycle(run, TRUE)
        /\ lastOp' = Ran("runHealthChecks", run)
  /\ observed' = NotRun
  /\ UNCHANGED <<legacy, config, clock, disposed, listening, tokens, lifecycle, subscriber>>

\* The healthCheckTimeout fires.  v3 armed it with an arrow function and a
\* new cycle starts; v2 armed it with the unbound method this.runHealthChecks,
\* whose `this.log` throws, so no cycle starts and no timer is armed.
TimerFires ==
  /\ timer
  /\ cycle = "idle"
  /\ inflight = {}
  /\ IF variant = "v3"
       THEN \E run \in {processHealthChecks(listening, Current, instanceMap, 0, 0,
                                       NoRun)} :
               /\ SetMaps(run.st)
               /\ StartCycle(run, FALSE)
               /\ lastOp' = Ran("timer", run)
       ELSE /\ timer' = FALSE
            /\ lastOp' = Op("timer", NoId, "", "", "absent", NoOut, NoToken)
            /\ UNCHANGED <<loop, maps>>
  /\ observed' = NotRun
  /\ UNCHANGED <<legacy, config, clock, disposed, listening, tokens, lifecycle, subscriber>>

\* The fetch of a probe answers 2xx with a JSON body: healthCheckPassed.
ProbePasses(id) ==
  /\ id \in inflight
  /\ Settling[variant]["healthCheckPassed"] # {}
  /\ \E out \in {checkInstanceHealth(listening, subscriber, throws, Current, id,
                                       "healthCheckPassed")} :
     \E run \in {AfterProbe(out.st, id)} :
        /\ SetMaps(run.st)
        /\ IF out.rejected THEN AbortCycle(id) ELSE ResumeCycle(run, id)
        /\ lastOp' =
             [Op("probePassed", id, "", "", Was(Current, id),
                 Outcome(Current, out.ev, NoId,
                         IF out.rejected \/ run.phase = "rejected"
                           THEN "Rejected" ELSE "none"),
                 NoToken)
              EXCEPT !.issued = run.issued]
  /\ observed' = NotRun
  /\ UNCHANGED <<legacy, config, clock, disposed, listening, tokens, lifecycle, subscriber>>

\* The fetch of a probe fails, times out or answers non-2xx: healthCheckFailed.
ProbeFails(id) ==
  /\ id \in inflight
  /\ Settling[variant]["healthCheckFailed"] # {}
  /\ \E out \in {checkInstanceHealth(listening, subscriber, throws, Current, id,
                                       "healthCheckFailed")} :
     \E run \in {AfterProbe(out.st, id)} :
        /\ SetMaps(run.st)
        /\ IF out.rejected THEN AbortCycle(id) ELSE ResumeCycle(run, id)
        /\ lastOp' =
             [Op("probeFailed", id, "", "", Was(Current, id),
                 Outcome(Current, out.ev, NoId,
                         IF out.rejected \/ run.phase = "rejected"
                           THEN "Rejected" ELSE "none"),
                 NoToken)
              EXCEPT !.issued = run.issued]
  /\ observed' = NotRun
  /\ UNCHANGED <<legacy, config, clock, disposed, listening, tokens, lifecycle, subscriber>>

\* The ttl timer of the probe of `id` fires while its fetch is pending.  v3
\* armed it with `() => controller.abort()`: the fetch rejects and the
\* catch block emits healthCheckFailed.  v2 armed it with the unbound
\* method controller.abort, which throws a TypeError in the timer callback:
\* the signal is not aborted and the fetch stays pending.
TtlFires(id) ==
  /\ id \in inflight
  /\ IF variant = "v3"
       THEN \E out \in {checkInstanceHealth(listening, subscriber, throws,
                                             Current, id, "healthCheckFailed")} :
            \E run \in {AfterProbe(out.st, id)} :
               /\ SetMaps(run.st)
               /\ IF out.rejected THEN AbortCycle(id) ELSE ResumeCycle(run, id)
               /\ lastOp' =
                    [Op("ttl", id, "", "", Was(Current, id),
                        Outcome(Current, out.ev, NoId,
                                IF out.rejected \/ run.phase = "rejected"
                                  THEN "Rejected" ELSE "none"),
                        NoToken)
                     EXCEPT !.issued = run.issued]
       ELSE /\ lastOp' = Op("ttl", id, "", "", Was(Current, id),
                            Outcome(Current, <<>>, NoId, "TypeError"), NoToken)
            /\ UNCHANGED <<maps, supervisor>>
  /\ observed' = NotRun
  /\ UNCHANGED <<legacy, config, clock, disposed, listening, tokens, lifecycle, subscriber>>

\* A millisecond passes.
Tick ==
  /\ clock < MaxClock
  /\ clock' = clock + 1
  /\ lastOp' = Op("tick", NoId, "", "", "absent", NoOut, NoToken)
  /\ observed' = NotRun
  /\ UNCHANGED <<legacy, config, disposed, listening, maps, tokens, supervisor,
                 lifecycle, subscriber>>

\* dispose() (v3 only): stops the timer, removes every listener of the four
\* events (an application handler too), clears the maps.  It never assigns
\* `disposed`.
Dispose ==
  /\ variant = "v3"
  /\ IF disposed
       THEN UNCHANGED <<timer, listening, subscriber, maps>>
       ELSE /\ timer' = FALSE
            /\ listening' = FALSE
            /\ subscriber' = "none"
            /\ SetMaps(State(heap, <<>>, EmptyServiceMap))
  /\ lifecycle' = "disposed"
  /\ observed' = NotRun
  /\ lastOp' = Op("dispose", NoId, "", "", "absent", NoOut, NoToken)
  /\ UNCHANGED <<legacy, config, clock, disposed, tokens, loop>>

\* init() (v3 only): returns at once unless `disposed`; otherwise attaches
\* the listeners and, with opts.healthChecks, starts a cycle.
InitRegistry ==
  /\ variant = "v3"
  /\ IF disposed /\ healthChecks /\ cycle = "idle"
       THEN \E run \in {processHealthChecks(TRUE, Current, instanceMap, 0, 0,
                                             NoRun)} :
               /\ SetMaps(run.st)
               /\ StartCycle(run, timer)
               /\ lastOp' = Ran("init", run)
       ELSE /\ lastOp' = Op("init", NoId, "", "", "absent", NoOut, NoToken)
            /\ UNCHANGED <<supervisor, maps>>
  /\ listening' = (listening \/ disposed)
  /\ lifecycle' = IF lifecycle = "disposed" THEN "reinitialised" ELSE lifecycle
  /\ observed' = NotRun
  /\ UNCHANGED <<legacy, config, clock, disposed, tokens, subscriber>>

Next ==
  \/ \E type \in Types, key \in Keys : Register(type, key, GoodPort)
  \/ \E id \in 1..MaxIds : Unregister(id)
  \/ RunHealthChecks
  \/ TimerFires
  \/ \E id \in 1..MaxIds : ProbePasses(id)
  \/ \E id \in 1..MaxIds : ProbeFails(id)
  \/ Dispose
  \/ InitRegistry

Spec == Init /\ [][Next]_vars

\* The same registry with an application handler subscribed.
SpecSubscribed == InitSubscribed /\ [][Next]_vars

\* The same registry with an application handler that throws.
SpecThrowing == InitThrowing /\ [][Next]_vars

\* The same registry when services may also register with a port from
\* which no URL can be made.
NextUrls ==
  \/ Next
  \/ \E type \in Types : Register(type, RegistrationKey, BadPort)

SpecUrls == Init /\ [][NextUrls]_vars

\* The same registry with instances that do not answer before healthCheckTTL.
NextTtl ==
  \/ Next
  \/ \E id \in 1..MaxIds : TtlFires(id)

SpecTtl == Init /\ [][NextTtl]_vars

\* The same registry while time passes.
NextTimed ==
  \/ Next
  \/ Tick

SpecTimed == Init /\ [][NextTimed]_vars

\* The same registry when runHealthChecks() is also called from outside
\* while a timer is pending.
NextManual ==
  \/ Next
  \/ RunHealthChecksScheduled

SpecManual == Init /\ [][NextManual]_vars

\* The registry behind the HTTP API, constructed as the API tests do with
\* { healthChecks: false }: the default sizes (100 and 10) put every
\* instance of a run into one chunk.
InitApi ==
  /\ Init
  /\ ~healthChecks
  /\ healthCheckBatchSize = MaxBatchSize
  /\ healthCheckMaxRequests = Min(MaxRequests, MaxBatchSize)

\* What the routes and the tests around them call: register, unregister,
\* dispose, init.  Nothing there calls runHealthChecks, so with
\* healthChecks off no cycle runs and no timer is armed.
NextApi ==
  \/ \E type \in Types, key \in Keys : Register(type, key, GoodPort)
  \/ \E id \in 1..MaxIds : Unregister(id)
  \/ \E sid \in 0..MaxIds, k \in 0..MaxIds, id \in 1..MaxIds :
       DeleteService(sid, mintToken(k), id)
  \/ Dispose
  \/ InitRegistry

SpecApi == InitApi /\ [][NextApi]_vars

\* ------------------------------------------------- legacy address registry
\* The earlier class ServiceRegistry, keyed by address: register(type, ip,
\* port, version), unregister(id), getNextServiceByType(type).
LegacyTypes == {"", "users", "products"}
Ips == {"10.0.0.1", "10.0.0.2"}
LegacyPorts == {"3000", "3001"}
Version == "1.0.0"

\* getIdByAddress(ip, port): the key of the first entry at that address,
\* NoId for undefined.
getIdByAddress(reg, ip, port) ==
  LET entry == {k \in 1..Len(reg) : reg[k].ip = ip /\ reg[k].port = port}
  IN IF entry = {} THEN NoId
     ELSE reg[CHOOSE k \in entry : \A m \in entry : k <= m].id

\* position of the key id in this.registry, 0 when absent
KeyIndex(reg, id) ==
  IF \E k \in 1..Len(reg) : reg[k].id = id
    THEN CHOOSE k \in 1..Len(reg) : reg[k].id = id
    ELSE 0

\* getServiceById(id)
getServiceById(reg, id) ==
  IF KeyIndex(reg, id) = 0 THEN Undefined ELSE reg[KeyIndex(reg, id)]

\* getServicesByType(type): Object.values(this.registry).filter(...), the
\* entries themselves, in key order.
getServicesByType(reg, type) == SelectSeq(reg, LAMBDA service : service.type = type)

\* register(type, ip, port, version) at time now, n ids handed out so far.
\* `service.type &&` lets an entry whose type is the empty string through.
legacyRegister(reg, n, type, ip, port, version, now) ==
  LET found == getIdByAddress(reg, ip, port)
      id == IF found # NoId THEN found ELSE n + 1
      at == KeyIndex(reg, id)
      entry == [id |-> id, type |-> type, ip |-> ip, port |-> port,
                version |-> version,
                created |-> IF at # 0 THEN reg[at].created ELSE now,
                lastUpdated |-> now, lastUsed |-> now]
  IN IF at # 0 /\ reg[at].type # "" /\ reg[at].type # type
       THEN [registry |-> reg, uuids |-> n, ret |-> NoId, err |-> "Error"]
       ELSE [registry |-> IF at # 0 THEN [reg EXCEPT ![at] = entry]
                          ELSE Append(reg, entry),
             uuids |-> IF found # NoId THEN n ELSE n + 1,
             ret |-> id, err |-> "none"]

\* unregister(id): delete this.registry[id] when the key exists.
legacyUnregister(reg, id) == SelectSeq(reg, LAMBDA service : service.id # id)

\* getNextServiceByType(type) at time now: services.sort by lastUsed is
\* stable, so services[0] is the first entry in key order among those with
\* the smallest lastUsed; its lastUsed is set to now in the registry.
getNextServiceByType(reg, type, now) ==
  LET services == getServicesByType(reg, type)
      first == CHOOSE k \in 1..Len(services) :
                 /\ \A m \in 1..Len(services) :
                      services[k].lastUsed <= services[m].lastUsed
                 /\ \A m \in 1..(k - 1) :
                      services[m].lastUsed > services[k].lastUsed
      at == KeyIndex(reg, services[first].id)
  IN IF Len(services) = 0
       THEN [registry |-> reg, ret |-> NoId, err |-> "Error", was |-> 0]
       ELSE [registry |-> [reg EXCEPT ![at].lastUsed = now],
             ret |-> services[first].id, err |-> "none",
             was |-> services[first].lastUsed]

\* lastOp of the legacy class: the call, its arguments, what it returned or
\* threw; was: lastUsed of the returned service before the call.
LegacyOp(op, id, type, ip, port, ret, err, was) ==
  [op |-> op, id |-> id, type |-> type, ip |-> ip, port |-> port,
   ret |-> ret, err |-> err, was |-> was]

\* new ServiceRegistry() of the legacy class.
InitLegacy ==
  /\ variant = "legacy"
  /\ healthChecks = FALSE
  /\ healthCheckBatchSize = 1
  /\ healthCheckMaxRequests = 1
  /\ throws = FALSE
  /\ disposed = FALSE
  /\ listening = FALSE
  /\ heap = <<>>
  /\ tokens = <<>>
  /\ instanceMap = <<>>
  /\ serviceMap = EmptyServiceMap
  /\ cycle = "idle"
  /\ snapshot = <<>>
  /\ bi = 0
  /\ cj = 0
  /\ inflight = {}
  /\ probed = <<>>
  /\ timer = FALSE
  /\ lifecycle = "constructed"
  /\ subscriber = "none"
  /\ observed = NotRun
  /\ lastOp = LegacyOp("new", NoId, "", "", "", NoId, "none", 0)
  /\ clock = 0
  /\ registry = <<>>
  /\ uuids = 0
  /\ served = <<>>

LegacyRegister(type, ip, port) ==
  /\ variant = "legacy"
  /\ getIdByAddress(registry, ip, port) # NoId \/ uuids < MaxIds
  /\ \E out \in {legacyRegister(registry, uuids, type, ip, port, Version,
                                clock)} :
       /\ registry' = out.registry
       /\ uuids' = out.uuids
       /\ lastOp' = LegacyOp("register", NoId, type, ip, port, out.ret,
                             out.err, 0)
  /\ served' = <<>>
  /\ UNCHANGED <<config, clock, disposed, listening, maps, tokens, supervisor,
                 lifecycle, subscriber, observed>>

LegacyUnregister(id) ==
  /\ variant = "legacy"
  /\ registry' = legacyUnregister(registry, id)
  /\ lastOp' = LegacyOp("unregister", id, "", "", "", NoId, "none", 0)
  /\ served' = <<>>
  /\ UNCHANGED <<config, clock, disposed, listening, maps, tokens, supervisor,
                 lifecycle, subscriber, observed, uuids>>

\* GET /service/:serviceName.  served collects what the calls for one type
\* return while nothing else is called, and starts again after as many calls
\* as there are services of the type.
GetNextServiceByType(type) ==
  /\ variant = "legacy"
  /\ \E out \in {getNextServiceByType(registry, type, clock)} :
       /\ registry' = out.registry
       /\ lastOp' = LegacyOp("getNextServiceByType", NoId, type, "", "",
                             out.ret, out.err, out.was)
       /\ served' =
            IF out.err # "none" THEN <<>>
            ELSE IF /\ lastOp.op = "getNextServiceByType"
                    /\ lastOp.type = type
                    /\ Len(served) < Len(getServicesByType(registry, type))
                   THEN Append(served, out.ret)
                   ELSE <<out.ret>>
  /\ UNCHANGED <<config, clock, disposed, listening, maps, tokens, supervisor,
                 lifecycle, subscriber, observed, uuids>>

\* A millisecond passes between two calls of the legacy class.
LegacyTick ==
  /\ variant = "legacy"
  /\ clock < MaxClock
  /\ clock' = clock + 1
  /\ UNCHANGED <<config, disposed, listening, maps, tokens, supervisor,
                 lifecycle, subscriber, observed, lastOp, legacy>>

NextLegacy ==
  \/ \E type \in LegacyTypes, ip \in Ips, port \in LegacyPorts :
       LegacyRegister(type, ip, port)
  \/ \E id \in 1..MaxIds : LegacyUnregister(id)
  \/ \E type \in LegacyTypes : GetNextServiceByType(type)
  \/ LegacyTick

SpecLegacy == InitLegacy /\ [][NextLegacy]_vars

\* ================================================================ claims
TypeOf(id) == heap[id].serviceType

\* The ids getInstancesByType(type) answers with.
Listed(s, type) == DOMAIN getInstancesByType(s, type)

C2_HealthyListed ==
  \A id \in Range(instanceMap) :
    heap[id].healthy =>
      /\ heap[id].serviceType \in DOMAIN serviceMap
      /\ id \in serviceMap[heap[id].serviceType]

\* C2 witness: a registered unhealthy instance has just turned healthy
\* while another instance is registered too.
C2_Witness ==
  /\ lastOp.op = "probePassed"
  /\ lastOp.was = "unhealthy"
  /\ MapHas(instanceMap, lastOp.id)
  /\ heap[lastOp.id].healthy
  /\ Len(instanceMap) > 1

\* C3: register(req, validKey) on a freshly constructed, not disposed
\* registry (of the class with dispose()/init()) returns an id such that
\* right afterwards getInstanceById(id) is a record with that id, the
\* serviceType of the request and healthy = true, and
\* validateInstanceAuth(id, returned token) is true.
C3_RegisterRoundTrip ==
  ( /\ variant = "v3"
    /\ ~disposed
    /\ lastOp.op = "register"
    /\ lastOp.key = RegistrationKey )
  => /\ lastOp.err = "none"
     /\ lastOp.ret # NoId
     /\ \A rec \in {getInstanceById(Current, lastOp.ret)} :
          /\ rec # Undefined
          /\ rec.id = lastOp.ret
          /\ rec.serviceType = lastOp.type
          /\ rec.healthy
     /\ validateInstanceAuth(Current, tokens, lastOp.ret, lastOp.token)

\* C4: register with a key different from the configured one fails with an
\* Authentication error and leaves instanceMap and serviceMap (and the
\* heap) unchanged; no record is created, no instanceRegistered is emitted.
C4_BadKeyRejected ==
  [][ (lastOp'.op = "register" /\ lastOp'.key # RegistrationKey)
      => /\ lastOp'.err = "Authentication"
         /\ lastOp'.ret = NoId
         /\ lastOp'.ev = <<>>
         /\ UNCHANGED <<heap, instanceMap, serviceMap, tokens>> ]_vars

\* C4 witness: a register with a wrong key was refused on a registry that
\* holds an instance.
C4_Witness ==
  /\ lastOp.op = "register"
  /\ lastOp.key # RegistrationKey
  /\ lastOp.err = "Authentication"
  /\ Len(instanceMap) > 0

\* C5: a failed probe of a registered healthy instance leaves its record
\* in instanceMap, now with healthy = false, and takes its id out of
\* getInstancesByType(serviceType); a record leaves instanceMap only in a
\* step that is unregister of its id.
C5_FailedCheckKeepsRecord ==
  [][ /\ (lastOp'.op = "probeFailed" /\ Was(Current, lastOp'.id) = "healthy")
         => /\ getInstanceById(Current', lastOp'.id) # Undefined
            /\ getInstanceById(Current', lastOp'.id).id = lastOp'.id
            /\ ~getInstanceById(Current', lastOp'.id).healthy
            /\ lastOp'.id \notin Listed(Current', TypeOf(lastOp'.id))
      /\ \A id \in Range(instanceMap) \ Range(instanceMap') :
           lastOp'.op = "unregister" /\ lastOp'.id = id ]_vars

\* C5 witness: a probe of a registered healthy instance has failed; the
\* record is still there, unhealthy.
C5_Witness ==
  /\ lastOp.op = "probeFailed"
  /\ lastOp.was = "healthy"
  /\ MapHas(instanceMap, lastOp.id)
  /\ ~heap[lastOp.id].healthy

\* C6: when a probe passes for an instance that is registered and marked
\* unhealthy, the instance is at once healthy = true and among the results
\* of getInstancesByType(serviceType).
C6_RecoveryOnPass ==
  (lastOp.op = "probePassed" /\ lastOp.was = "unhealthy")
  => /\ getInstanceById(Current, lastOp.id) # Undefined
     /\ heap[lastOp.id].healthy
     /\ lastOp.id \in Listed(Current, TypeOf(lastOp.id))
     /\ getInstancesByType(Current, TypeOf(lastOp.id))[lastOp.id].healthy

\* C6 witness: an unhealthy registered instance has just passed a probe
\* and is listed again.
C6_Witness ==
  /\ lastOp.op = "probePassed"
  /\ lastOp.was = "unhealthy"
  /\ lastOp.id \in Listed(Current, TypeOf(lastOp.id))

\* The records of instanceMap of type t that are healthy, by id.
HealthyOfType(t) ==
  {id \in Range(instanceMap) : heap[id].serviceType = t /\ heap[id].healthy}

\* C7: for every service type t, getInstancesByType(t) is exactly the
\* records of instanceMap of type t with healthy = true, one entry for
\* each, none of them undefined; it is empty when there is none.
C7_ByTypeExact ==
  \A t \in Types :
    \A listed \in {getInstancesByType(Current, t)} :
      /\ DOMAIN listed = HealthyOfType(t)
      /\ \A id \in DOMAIN listed :
           /\ listed[id] # Undefined
           /\ listed[id] = heap[id]
           /\ heap[id].id = id

\* C7 witness: a type with one instance listed and another one hidden
\* because it is unhealthy.
C7_Witness ==
  \E t \in Types :
    /\ Listed(Current, t) # {}
    /\ \E id \in Range(instanceMap) :
         heap[id].serviceType = t /\ ~heap[id].healthy

\* C8: after unregister(id) of a registered instance, healthy or not,
\* getInstanceById(id) is absent and the id is not among the results of
\* getInstancesByType for its service type.
C8_UnregisterRemoves ==
  (lastOp.op = "unregister" /\ lastOp.was # "absent")
  => /\ getInstanceById(Current, lastOp.id) = Undefined
     /\ lastOp.id \notin Listed(Current, TypeOf(lastOp.id))
     /\ lastOp.ev = <<"instanceRemoved">>

\* C8 witness: an unhealthy registered instance has just been unregistered.
C8_Witness ==
  /\ lastOp.op = "unregister"
  /\ lastOp.was = "unhealthy"
  /\ ~MapHas(instanceMap, lastOp.id)

\* C9: once every registered instance has been unregistered, instanceMap
\* and serviceMap are both empty (size 0): unregistering the last instance
\* of a type leaves no key for the type in serviceMap.
C9_EmptyAfterUnregisterAll ==
  ( /\ lastOp.op = "unregister"
    /\ lastOp.was # "absent"
    /\ Len(instanceMap) = 0 )
  => DOMAIN serviceMap = {}

\* C10: for every id, registered or not, unregister(id) followed by
\* unregister(id) leaves instanceMap and serviceMap as one unregister(id)
\* does; the second call throws nothing and emits no instanceRemoved.
C10_UnregisterIdempotent ==
  \A id \in 1..MaxIds :
    \A once \in {unregister(listening, Current, id)} :
      \A twice \in {unregister(listening, once.st, id)} :
        /\ twice.st = once.st
        /\ twice.err = "none"
        /\ twice.ev = <<>>

\* C10 witness: unregister was called for an id that had been registered
\* and unregistered before; nothing was emitted.
C10_Witness ==
  /\ listening
  /\ lastOp.op = "unregister"
  /\ lastOp.was = "absent"
  /\ lastOp.id <= Len(heap)
  /\ lastOp.ev = <<>>
  /\ Len(instanceMap) > 0

\* C11: a healthCheckFailed for an instance that is already unhealthy, and a
\* healthCheckPassed for one that is already healthy, change nothing in the
\* heap, instanceMap or serviceMap; two successive failures (or passes) for
\* the same instance leave the state that one leaves.
C11_HealthToggleIdempotent ==
  \A id \in 1..Len(heap) :
    \A now \in {Current} :
      \A f1 \in {OnHealthCheckFailed(now, id)}, p1 \in {OnHealthCheckPassed(now, id)} :
        /\ (~heap[id].healthy => f1 = now)
        /\ (heap[id].healthy => p1 = now)
        /\ OnHealthCheckFailed(f1, id) = f1
        /\ OnHealthCheckPassed(p1, id) = p1

\* C11 witness: a probe failed for an instance that was already unhealthy
\* and had been unregistered since the snapshot was taken.
C11_Witness ==
  /\ listening
  /\ lastOp.op = "probeFailed"
  /\ lastOp.id <= Len(heap)
  /\ ~heap[lastOp.id].healthy
  /\ ~MapHas(instanceMap, lastOp.id)
  /\ lastOp.was = "absent"

\* C12: when an application handler for instanceRegistered(x) runs,
\* getInstanceById(x.id) already returns x and x.id is already in the Set of
\* x.serviceType; when a handler for instanceRemoved(x) runs, x is already
\* absent from both, however the handler was attached.
C12_EffectBeforeEvent ==
  observed.ran =>
    /\ lastOp.op = "register" => (observed.present /\ observed.listed)
    /\ lastOp.op = "unregister" => (~observed.present /\ ~observed.listed)

\* C14: a register made after dispose() and before any init() fails with the
\* Disposed error: it creates no record, returns no id and emits no event.
C14_RegisterAfterDisposeFails ==
  ( /\ lifecycle = "disposed"
    /\ lastOp.op = "register"
    /\ verifyRegistrationKey(lastOp.key) )
  => /\ lastOp.err = "Disposed"
     /\ lastOp.id = NoId
     /\ lastOp.ret = NoId
     /\ lastOp.ev = <<>>

\* C15: from dispose() until init() is called, lookups answer as on an empty
\* registry: getInstanceById(id) is undefined for every id and
\* getInstancesByType(type) is empty for every type, whatever was registered
\* before (or after) the dispose.
C15_LookupsEmptyAfterDispose ==
  lifecycle = "disposed" =>
    /\ \A id \in 1..MaxIds : getInstanceById(Current, id) = Undefined
    /\ \A type \in Types : DOMAIN getInstancesByType(Current, type) = {}

\* C15 witness: dispose() has just returned on a registry on which register
\* had been called and had returned an id.
C15_Witness ==
  /\ lifecycle = "disposed"
  /\ lastOp.op = "dispose"
  /\ Len(heap) > 0

\* C16: the registry is running again after dispose() followed by init():
\* a register made then succeeds and the new instance is returned by
\* getInstanceById and by getInstancesByType of its type.
C16_RunningAfterReinit ==
  ( /\ lifecycle = "reinitialised"
    /\ lastOp.op = "register"
    /\ verifyRegistrationKey(lastOp.key) )
  => /\ lastOp.err = "none"
     /\ getInstanceById(Current, lastOp.id) = heap[lastOp.id]
     /\ lastOp.id \in DOMAIN getInstancesByType(Current, lastOp.type)

\* C17: from the return of dispose() until init() is called, no cycle is in
\* progress, no probe is in flight, no healthCheckTimeout is pending and no
\* call or callback emits a lifecycle event.
C17_QuietAfterDispose ==
  lifecycle = "disposed" =>
    /\ cycle = "idle"
    /\ inflight = {}
    /\ ~timer
    /\ lastOp.op # "dispose" => lastOp.ev = <<>>

C20_CycleFollowsCycle ==
  (lastOp.op = "timer" /\ lifecycle # "disposed") => (cycle = "running" \/ timer)

\* C21: with health checks enabled and the registry not disposed, the
\* supervisor stays alive while an instance is registered: a cycle is in
\* progress or the timer of the next one is pending, so that a probe of the
\* instance is still to come without any call from outside.
C21_ProbingStaysAlive ==
  ( /\ healthChecks
    /\ lifecycle # "disposed"
    /\ Len(instanceMap) > 0 )
  => (cycle = "running" \/ timer)

\* C22: with opts.healthChecks = false no healthCheckTimeout is ever
\* pending and no timer callback ever runs.
C22_DisabledNeverSchedules ==
  ~healthChecks => (~timer /\ lastOp.op # "timer")

\* C23: a probe result that arrives for an instance unregistered since the
\* snapshot changes nothing: the instance stays absent from instanceMap and
\* from every Set of serviceMap.
C23_StaleResultNoOp ==
  ( /\ lastOp.op \in {"probePassed", "probeFailed"}
    /\ lastOp.was = "absent" )
  => /\ getInstanceById(Current, lastOp.id) = Undefined
     /\ \A type \in DOMAIN serviceMap : lastOp.id \notin serviceMap[type]

\* C24: an instance registered while a cycle is in progress is outside that
\* cycle's snapshot: no probe of it is issued or in flight in the cycle, and
\* while it stays registered it is healthy and listed under its type.  A
\* cycle that has just started has the whole instanceMap as its snapshot.
C24_MidCycleRegistration ==
  cycle = "running" =>
    /\ \A id \in (1..Len(heap)) \ Range(snapshot) :
         /\ id \notin Range(probed)
         /\ id \notin inflight
         /\ MapHas(instanceMap, id) =>
              (heap[id].healthy /\ id \in Listed(Current, TypeOf(id)))
    /\ lastOp.op \in {"runHealthChecks", "timer", "init"} => snapshot = instanceMap

\* C24 witness: an instance has just been registered, and stored, while the
\* probe of an earlier one is in flight.
C24_Witness ==
  /\ cycle = "running"
  /\ inflight # {}
  /\ lastOp.op = "register"
  /\ MapHas(instanceMap, lastOp.id)
  /\ lastOp.id \notin Range(snapshot)

C26_SubscriberFailureIsolated ==
  /\ lastOp.err # "Handler"
  /\ lastOp.err # "Rejected"

\* C29: a probe that settles emits exactly one event: healthCheckPassed
\* alone when the response was 2xx with a body that parses, and then the
\* instance is not marked unhealthy; healthCheckFailed alone otherwise.
C29_ExactlyOneEvent ==
  /\ lastOp.op = "probePassed" =>
       /\ lastOp.ev = <<"healthCheckPassed">>
       /\ heap[lastOp.id].healthy
  /\ lastOp.op = "probeFailed" => lastOp.ev = <<"healthCheckFailed">>

\* C30: a probe passes exactly when its fetch brings a response with a
\* status in 200..299 and a body that parses as JSON; a transport error, an
\* abort, another status or an unparseable body make it fail.  Either way
\* the probe emits that one event, sets the health of a registered instance
\* accordingly and its promise resolves, so that the cycle goes on.
C30_PassIffOkJson ==
  /\ Settling[variant]["healthCheckPassed"] =
       {r \in Responses(variant) :
          r.transport = "response" /\ r.status \in 200..299 /\ r.json}
  /\ Settling[variant]["healthCheckFailed"] =
       Responses(variant) \ Settling[variant]["healthCheckPassed"]
  /\ \A id \in inflight, ev \in {"healthCheckPassed", "healthCheckFailed"} :
       \A out \in {checkInstanceHealth(listening, subscriber, throws, Current,
                                        id, ev)} :
          /\ out.ev = <<ev>>
          /\ ~out.rejected
          /\ listening => (out.st.heap[id].healthy <=> ev = "healthCheckPassed")
  /\ lastOp.op \in {"probePassed", "probeFailed"} => lastOp.err = "none"

\* C30 witness: a probe has failed and its cycle has gone on to the chunk
\* after it.
C30_Witness ==
  /\ lastOp.op = "probeFailed"
  /\ lastOp.ev = <<"healthCheckFailed">>
  /\ cycle = "running"
  /\ bi + cj > 0
  /\ inflight # {}

\* C27: with valid service credentials GET /services/:type answers 400 for
\* a type the registry has no Set for, and 200 with the healthy instances
\* of the type otherwise; the registry is left as it was.
C27_UnknownTypeIs400 ==
  \A id \in 1..Len(tokens), name \in ServiceNames :
    LET res == getServices(Current, tokens, id, tokens[id], name)
    IN validateInstanceAuth(Current, tokens, id, tokens[id]) =>
         /\ res.st = Current
         /\ res.status = IF name \in DOMAIN serviceMap THEN 200 ELSE 400
         /\ res.status = 200 => DOMAIN res.data = HealthyOfType(name)

\* C28: while a cycle runs, the probes in flight all belong to the current
\* chunk, and the probes issued so far are exactly the snapshot up to the
\* end of that chunk: no probe of a later chunk or batch is issued before
\* every probe of the current one has settled, and chunks follow the
\* order of the snapshot.
C28_ChunksSequential ==
  cycle = "running" =>
    /\ inflight # {}
    /\ inflight \subseteq Range(Chunk(snapshot, bi, cj))
    /\ probed = SubSeq(snapshot, 1, bi + cj + Len(Chunk(snapshot, bi, cj)))

\* C28 witness: the one probe of the first chunk has settled and the probe
\* of the second chunk is in flight.
C28_Witness ==
  /\ cycle = "running"
  /\ lastOp.op \in {"probePassed", "probeFailed"}
  /\ bi + cj > 0
  /\ Len(probed) = 2
  /\ inflight = {snapshot[2]}

\* C31: a probe whose URL cannot be constructed counts as a failure: the
\* instance, if registered, is unhealthy once checkInstanceHealth was called
\* for it, no fetch is pending for it, and no promise of a probe rejects, so
\* that the other probes of the chunk and the later chunks are issued.
C31_BadUrlCountsAsFailure ==
  /\ \A k \in 1..Len(lastOp.issued) :
       \A id \in {lastOp.issued[k]} :
         (~URLParses(heap[id].port) /\ MapHas(instanceMap, id))
           => (~heap[id].healthy /\ id \notin inflight)
  /\ lastOp.issued # <<>> => lastOp.err # "Rejected"

\* C32: every issued probe terminates: when the ttl timer of a probe fires,
\* its fetch is aborted and the probe is over, recorded as a failure (one
\* healthCheckFailed, no error), so that the cycle can complete.
C32_TtlAbortsProbe ==
  lastOp.op = "ttl" =>
    /\ lastOp.id \notin inflight
    /\ lastOp.ev = <<"healthCheckFailed">>
    /\ lastOp.err = "none"

\* C33: a probe that flips the health status of a registered instance sets
\* its lastUpdated to the time of the flip; a probe that does not flip it
\* leaves lastUpdated as it was, so that lastUpdated is never before created.
C33_FlipSetsLastUpdated ==
  /\ \A k \in 1..Len(instanceMap) :
       heap[instanceMap[k]].lastUpdated >= heap[instanceMap[k]].created
  /\ ( /\ lastOp.op \in {"probePassed", "probeFailed"}
       /\ lastOp.was # "absent"
       /\ MapHas(instanceMap, lastOp.id)
       /\ (lastOp.was = "healthy") # heap[lastOp.id].healthy )
     => heap[lastOp.id].lastUpdated = clock

\* C34: dispose() is idempotent: a second dispose() with no init() since
\* the first leaves the maps, the listeners and the tokens as they were,
\* leaves no timer pending, raises no error, and the registry is Disposed
\* afterwards: register fails with a Disposed error.
C34_DisposeIdempotent ==
  [][ (lifecycle = "disposed" /\ lastOp'.op = "dispose")
      => /\ UNCHANGED <<maps, listening, tokens>>
         /\ ~timer'
         /\ lastOp'.err = "none"
         /\ lifecycle' = "disposed"
         /\ \A type \in Types :
              register(variant', disposed', listening',
                       State(heap', instanceMap', serviceMap'), type, GoodPort,
                       clock').err = "Disposed" ]_vars

C36_OneCycleAtATime == ~(cycle = "running" /\ timer)

C38_AddressKeyed ==
  /\ \A k, m \in 1..Len(registry) :
       (registry[k].ip = registry[m].ip /\ registry[k].port = registry[m].port)
         => k = m
  /\ \A ip \in Ips, port \in LegacyPorts :
       \A found \in {getIdByAddress(registry, ip, port)} :
         found # NoId =>
           \A type \in LegacyTypes :
             \A out \in {legacyRegister(registry, uuids, type, ip, port,
                                        Version, clock)} :
               IF getServiceById(registry, found).type = type
                 THEN /\ out.err = "none"
                      /\ out.ret = found
                      /\ getServiceById(out.registry, found).created
                           = getServiceById(registry, found).created
                 ELSE /\ out.err = "Error"
                      /\ out.registry = registry

\* C39: getNextServiceByType(type) throws when no service of the type
\* exists and otherwise returns a service of the type that was used least
\* recently; the calls made in a row for a type with n services return n
\* different services, whatever their lastUsed timestamps are.
C39_RoundRobin ==
  /\ \A i, j \in 1..Len(served) : served[i] = served[j] => i = j
  /\ lastOp.op = "getNextServiceByType" =>
       \A services \in {getServicesByType(registry, lastOp.type)} :
         IF services = <<>>
           THEN lastOp.err = "Error"
           ELSE /\ lastOp.err = "none"
                /\ \E k \in 1..Len(services) : services[k].id = lastOp.ret
                /\ \A k \in 1..Len(services) :
                     services[k].id # lastOp.ret
                       => services[k].lastUsed >= lastOp.was
====
